---- MODULE Spec2Model ----
(***************************************************************************)
(* Model of app.py (Data Update Manager): the filename period extractors,  *)
(* the column reconciler, and the overwrite / append synchronisation of a  *)
(* worksheet, together with the upload flows of main() that call them.     *)
(*                                                                         *)
(* Text is modelled as a sequence of one-character strings (filenames) or  *)
(* as an opaque string (cell values and column names).  A worksheet is a   *)
(* sequence of rows, each a sequence of cell strings, kept in the form the *)
(* Sheets API reports it: "" is an empty cell, a row carries no trailing   *)
(* empty cell and the grid carries no trailing empty row.                  *)
(***************************************************************************)
EXTENDS Integers, Sequences, FiniteSets, TLC

VARIABLES
    pc,               \* position of the running script / handler
    tab,              \* which tab's flow is running
    filename,         \* name of the uploaded file
    marker,           \* (month, quarter, year) returned by the extractor
    df,               \* main(): table parsed from the uploaded file
    df_with_metadata, \* main(): table passed to append_to_sheet as new_data
    sheet,            \* content of the destination worksheet
    before,           \* content of the worksheet when the handler was entered
    existing_headers, \* local of append_to_sheet
    existing_rows,    \* local of append_to_sheet
    start_row,        \* row= argument of the last set_with_dataframe call
    written,          \* table passed to the last set_with_dataframe call
    ret,              \* return value of the last core operation
    existing_columns, \* main(): result of get_existing_columns
    existing_count,   \* main(): data row count read before the append
    new_count,        \* main(): data row count read after the append
    added_rows,       \* main(): new_count - existing_count
    filtered,         \* result of filter_and_reorder_data
    mutations,        \* remote clear/write calls issued for this upload
    history,          \* data row counts of the appends made since the range was empty
    calls,            \* remote calls issued by the running core operation, by kind
    failed,           \* the remote calls of this run that raised
    external          \* rows another writer added while the operation ran

vars == <<pc, tab, filename, marker, df, df_with_metadata, sheet, before, existing_headers,
          existing_rows, start_row, written, ret, existing_columns,
          existing_count, new_count, added_rows, filtered, mutations, history,
          calls, failed, external>>

(***************************************************************************)
(* Generic helpers                                                         *)
(***************************************************************************)
Max(a, b) == IF a >= b THEN a ELSE b

Range(s) == {s[i] : i \in 1..Len(s)}

\* Python's None, for values that are otherwise natural numbers
None == -1

\* Python's None, for values that are otherwise tables
NoTable == [columns |-> <<"<None>">>, series |-> <<>>, index |-> 0]

\* truth value of an int-or-None (if x:)
Truthy(x) == x /= None /\ x /= 0

(***************************************************************************)
(* Filenames and the two period extractors                                 *)
(***************************************************************************)
Digits == <<"0", "1", "2", "3", "4", "5", "6", "7", "8", "9">>

IsDigit(c) == \E d \in 1..10 : Digits[d] = c

DigitVal(c) == (CHOOSE d \in 1..10 : Digits[d] = c) - 1

\* int(s) for a string of decimal digits
RECURSIVE IntOf(_)
IntOf(s) ==
    IF s = <<>> THEN 0
    ELSE 10 * IntOf(SubSeq(s, 1, Len(s) - 1)) + DigitVal(s[Len(s)])

\* \d{n} at position i of s
DigitsAt(s, i, n) == i + n - 1 <= Len(s) /\ \A k \in i..(i + n - 1) : IsDigit(s[k])

\* a literal at position i of s
LitAt(s, i, lit) ==
    i + Len(lit) - 1 <= Len(s) /\ \A k \in 1..Len(lit) : s[i + k - 1] = lit[k]

EndsWith(s, suffix) ==
    Len(s) >= Len(suffix) /\ LitAt(s, Len(s) - Len(suffix) + 1, suffix)

\* \d{2}_\d{2}_\d{4} at position i
DateAt(s, i) ==
    /\ DigitsAt(s, i, 2) /\ LitAt(s, i + 2, <<"_">>)
    /\ DigitsAt(s, i + 3, 2) /\ LitAt(s, i + 5, <<"_">>)
    /\ DigitsAt(s, i + 6, 4)

\* (\d{2}_\d{2}_\d{4})-(\d{2}_\d{2}_\d{4}) at position i
PatternAAt(s, i) == DateAt(s, i) /\ LitAt(s, i + 10, <<"-">>) /\ DateAt(s, i + 11)

\* the quarter of a month: (month - 1) // 3 + 1
QuarterOf(month) == ((month - 1) \div 3) + 1

NoMatch == [month |-> None, quarter |-> None, year |-> None]

\* the extractor reading the month and year of the second date of the range
extract_date_from_range_end(name) ==
    LET hits == {i \in 1..Len(name) : PatternAAt(name, i)}
    IN  IF hits /= {}
        THEN LET i == CHOOSE h \in hits : \A g \in hits : h <= g
                 month == IntOf(SubSeq(name, i + 14, i + 15))
                 year == IntOf(SubSeq(name, i + 17, i + 20))
             IN  [month |-> month, quarter |-> QuarterOf(month), year |-> year]
        ELSE NoMatch

extract_date_from_filename(name) ==
    LET hits == {i \in 1..Len(name) : PatternAAt(name, i)}
    IN  IF hits /= {}
        THEN LET i == CHOOSE h \in hits : \A g \in hits : h <= g   \* re.search: leftmost
                 month == IntOf(SubSeq(name, i + 3, i + 4))
                 year == IntOf(SubSeq(name, i + 6, i + 9))
             IN  [month |-> month, quarter |-> QuarterOf(month), year |-> year]
        ELSE NoMatch

\* positions at which $ matches: the end, and just before a final newline
DollarAt(s, i) == i = Len(s) + 1 \/ (i = Len(s) /\ s[i] = "\n")

\* (\d{4})_(\d{2})_(\d{2})\.csv?$ at position i
PatternBAt(s, i) ==
    /\ DigitsAt(s, i, 4) /\ LitAt(s, i + 4, <<"_">>)
    /\ DigitsAt(s, i + 5, 2) /\ LitAt(s, i + 7, <<"_">>)
    /\ DigitsAt(s, i + 8, 2) /\ LitAt(s, i + 10, <<".", "c", "s">>)
    /\ \/ LitAt(s, i + 13, <<"v">>) /\ DollarAt(s, i + 14)
       \/ DollarAt(s, i + 13)

extract_date_from_brand_analytics_filename(name) ==
    LET hits == {i \in 1..Len(name) : PatternBAt(name, i)}
    IN  IF hits /= {}
        THEN LET i == CHOOSE h \in hits : \A g \in hits : h <= g
                 year == IntOf(SubSeq(name, i, i + 3))
                 month == IntOf(SubSeq(name, i + 5, i + 6))
             IN  [month |-> month, quarter |-> QuarterOf(month), year |-> year]
        ELSE NoMatch

validate_file_format(name, expected_format) ==
    IF expected_format = "txt" THEN EndsWith(name, <<".", "t", "x", "t">>)
    ELSE IF expected_format = "csv" THEN EndsWith(name, <<".", "c", "s", "v">>)
    ELSE IF expected_format = "xlsx"
         THEN EndsWith(name, <<".", "x", "l", "s", "x">>) \/ EndsWith(name, <<".", "x", "l", "s">>)
    ELSE FALSE

(***************************************************************************)
(* Tables (pandas DataFrame): ordered column names, one series per column, *)
(* and the number of rows of the index                                     *)
(***************************************************************************)
\* a missing value (NaN / None) in a table
NaN == "<NaN>"

\* pd.DataFrame()
EmptyFrame == [columns |-> <<>>, series |-> <<>>, index |-> 0]

HasColumn(frame, name) == name \in Range(frame.columns)

ColumnIndex(frame, name) == CHOOSE j \in 1..Len(frame.columns) : frame.columns[j] = name

\* frame[name]
GetColumn(frame, name) == frame.series[ColumnIndex(frame, name)]

\* the column is replaced in place when the name exists, else added last
PutColumn(frame, name, col) ==
    IF HasColumn(frame, name)
    THEN [frame EXCEPT !.series[ColumnIndex(frame, name)] = col]
    ELSE [frame EXCEPT !.columns = Append(@, name), !.series = Append(@, col)]

\* frame[name] = value, value a scalar: broadcast over the index
SetScalar(frame, name, value) ==
    PutColumn(frame, name, [i \in 1..frame.index |-> value])

\* frame[name] = s, s a series: a frame without rows first takes the index
\* of s (its columns become NaN), then s is aligned on the index
SetSeries(frame, name, s) ==
    LET grown == IF frame.index = 0 /\ Len(s) > 0
                 THEN [frame EXCEPT !.index = Len(s),
                                    !.series = [j \in 1..Len(frame.columns) |->
                                                   [i \in 1..Len(s) |-> NaN]]]
                 ELSE frame
    IN  PutColumn(grown, name, [i \in 1..grown.index |-> IF i <= Len(s) THEN s[i] ELSE NaN])

\* frame.fillna(value)
fillna(frame, value) ==
    [frame EXCEPT !.series = [j \in 1..Len(frame.series) |->
                                 [i \in 1..Len(frame.series[j]) |->
                                     IF frame.series[j][i] = NaN THEN value
                                     ELSE frame.series[j][i]]]]

\* frame.values: the rows of the table
Rows(frame) ==
    [i \in 1..frame.index |-> [j \in 1..Len(frame.columns) |-> frame.series[j][i]]]

(***************************************************************************)
(* The worksheet (gspread) and set_with_dataframe (gspread_dataframe)      *)
(***************************************************************************)
RECURSIVE TrimRight(_)
TrimRight(row) ==
    IF row /= <<>> /\ row[Len(row)] = "" THEN TrimRight(SubSeq(row, 1, Len(row) - 1))
    ELSE row

RECURSIVE TrimBottom(_)
TrimBottom(grid) ==
    IF grid /= <<>> /\ grid[Len(grid)] = <<>> THEN TrimBottom(SubSeq(grid, 1, Len(grid) - 1))
    ELSE grid

\* the grid as the API reports it: no trailing empty cell, no trailing empty row
Normalise(grid) == TrimBottom([r \in 1..Len(grid) |-> TrimRight(grid[r])])

CellAt(grid, r, c) ==
    IF r <= Len(grid) /\ c <= Len(grid[r]) THEN grid[r][c] ELSE ""

\* worksheet.row_values(row)
row_values(grid, r) == IF r <= Len(grid) THEN grid[r] ELSE <<>>

\* worksheet.get_all_values()
get_all_values(grid) == grid

\* a clear that removes nothing
clear_nothing(grid) == grid

\* worksheet.clear()
clear(grid) == <<>>

\* gspread_dataframe._cellrepr: a missing value is written as ""
CellRepr(value) == IF value = NaN THEN "" ELSE value

\* worksheet.update_cells: lines[k][c] is written at (row + k - 1, c)
update_cells(grid, row, lines) ==
    LET last == Max(Len(grid), row + Len(lines) - 1)
        hit(r) == r >= row /\ r <= row + Len(lines) - 1
        width(r) == Max(Len(row_values(grid, r)), IF hit(r) THEN Len(lines[r - row + 1]) ELSE 0)
    IN  Normalise([r \in 1..last |->
                      [c \in 1..width(r) |->
                          IF hit(r) /\ c <= Len(lines[r - row + 1])
                          THEN CellRepr(lines[r - row + 1][c])
                          ELSE CellAt(grid, r, c)]])

\* set_with_dataframe(worksheet, frame, include_index=False,
\*                    include_column_header=header, row=row)
set_with_dataframe(grid, frame, header, row) ==
    update_cells(grid, row, (IF header THEN <<frame.columns>> ELSE <<>>) \o Rows(frame))

\* the write of overwrite mode without the header row
OverwriteWriteNoHeader(grid, data) == set_with_dataframe(grid, data, FALSE, 1)

\* set_with_dataframe(worksheet, data, include_index=False)
OverwriteWrite(grid, data) == set_with_dataframe(grid, data, TRUE, 1)

\* max(0, len(all_values) - 1)
DataCount(grid) == Max(0, Len(get_all_values(grid)) - 1)

(***************************************************************************)
(* append_to_sheet: the table written in append mode                       *)
(***************************************************************************)
\* for header in existing_headers: ...
RECURSIVE ReorderExisting(_, _, _)
ReorderExisting(frame, headers, new_data) ==
    IF headers = <<>> THEN frame
    ELSE LET header == Head(headers)
             next == IF HasColumn(new_data, header)
                     THEN SetSeries(frame, header, GetColumn(new_data, header))
                     ELSE SetScalar(frame, header, "")
         IN  ReorderExisting(next, Tail(headers), new_data)

\* for col in new_data.columns: if col not in existing_headers: ...
RECURSIVE AddNewColumns(_, _, _, _)
AddNewColumns(frame, cols, headers, new_data) ==
    IF cols = <<>> THEN frame
    ELSE LET col == Head(cols)
             next == IF col \notin Range(headers)
                     THEN SetSeries(frame, col, GetColumn(new_data, col))
                     ELSE frame
         IN  AddNewColumns(next, Tail(cols), headers, new_data)

reordered_data(headers, new_data) ==
    fillna(AddNewColumns(ReorderExisting(EmptyFrame, headers, new_data),
                         new_data.columns, headers, new_data), "")

\* row= of the append write
AppendRow(rows) == rows + 1

\* the write without the header row, replacing the header of an empty worksheet
\* an append that writes after the last row the worksheet has at the write
AppendedWriteAtEnd(grid, headers, rows, new_data) ==
    set_with_dataframe(grid, reordered_data(headers, new_data), FALSE, Len(grid) + 1)

InitialWriteNoHeader(grid, new_data) == set_with_dataframe(grid, fillna(new_data, ""), FALSE, 1)

\* set_with_dataframe(worksheet, new_data.fillna(""), include_index=False)
InitialWrite(grid, new_data) == set_with_dataframe(grid, fillna(new_data, ""), TRUE, 1)

\* set_with_dataframe(worksheet, reordered_data, include_index=False,
\*                    include_column_header=False, row=existing_rows + 1)
AppendedWrite(grid, headers, rows, new_data) ==
    set_with_dataframe(grid, reordered_data(headers, new_data), FALSE, AppendRow(rows))

(***************************************************************************)
(* filter_and_reorder_data: the column reconciler                          *)
(***************************************************************************)
\* str.lower() on the column names of the model
Lower(name) ==
    CASE name = "ASIN" -> "asin"
      [] name = "Sales" -> "sales"
      [] name = "Date" -> "date"
      [] name = "Extra" -> "extra"
      [] name = "Quarter" -> "quarter"
      [] name = "Month" -> "month"
      [] OTHER -> name

\* a dict as the sequence of its (key, value) items in insertion order
DictHas(d, key) == \E k \in 1..Len(d) : d[k][1] = key

DictGet(d, key) == d[CHOOSE k \in 1..Len(d) : d[k][1] = key][2]

\* d[key] = value: a key already present keeps its place and takes the value
DictPut(d, key, value) ==
    IF DictHas(d, key)
    THEN [k \in 1..Len(d) |-> IF d[k][1] = key THEN <<key, value>> ELSE d[k]]
    ELSE Append(d, <<key, value>>)

\* {col.lower(): col for col in names}
RECURSIVE LowerDict(_, _)
LowerDict(d, names) ==
    IF names = <<>> THEN d
    ELSE LowerDict(DictPut(d, Lower(Head(names)), Head(names)), Tail(names))

\* the pairs taken in the order of the uploaded columns instead
matching_columns_in_upload_order(frame, columns) ==
    LET df_columns_lower == LowerDict(<<>>, frame.columns)
        existing_columns_lower == LowerDict(<<>>, columns)
        hit == SelectSeq(df_columns_lower, LAMBDA item : DictHas(existing_columns_lower, item[1]))
    IN  [k \in 1..Len(hit) |-> <<DictGet(existing_columns_lower, hit[k][1]), hit[k][2]>>]

\* the (sheet column, file column) pairs, in the order of existing_columns_lower
matching_columns(frame, columns) ==
    LET df_columns_lower == LowerDict(<<>>, frame.columns)
        existing_columns_lower == LowerDict(<<>>, columns)
        hit == SelectSeq(existing_columns_lower, LAMBDA item : DictHas(df_columns_lower, item[1]))
    IN  [k \in 1..Len(hit) |-> <<hit[k][2], DictGet(df_columns_lower, hit[k][1])>>]

\* for sheet_col, file_col in matching_columns: filtered_df[sheet_col] = df[file_col]
RECURSIVE FilterColumns(_, _, _)
FilterColumns(frame, pairs, source) ==
    IF pairs = <<>> THEN frame
    ELSE FilterColumns(SetSeries(frame, Head(pairs)[1], GetColumn(source, Head(pairs)[2])),
                       Tail(pairs), source)

\* what filter_and_reorder_data returns on zero matches: None, [], []
NoMatchingColumns ==
    [df |-> NoTable, matched_sheet_columns |-> <<>>, matched_file_columns |-> <<>>]

filter_and_reorder_data(frame, columns) ==
    LET pairs == matching_columns(frame, columns)
    IN  IF pairs = <<>> THEN NoMatchingColumns
        ELSE [df |-> FilterColumns(EmptyFrame, pairs, frame),
              matched_sheet_columns |-> [k \in 1..Len(pairs) |-> pairs[k][1]],
              matched_file_columns |-> [k \in 1..Len(pairs) |-> pairs[k][2]]]

(***************************************************************************)
(* main(): helpers of the SellerBoard and Brand Analytics tabs             *)
(***************************************************************************)
\* str(n) for a natural number
RECURSIVE IntStr(_)
IntStr(n) == IF n < 10 THEN Digits[n + 1] ELSE IntStr(n \div 10) \o Digits[(n % 10) + 1]

\* the cell a broadcast month or quarter gives
PeriodCell(x) == IF x = None THEN NaN ELSE IntStr(x)

\* frame.insert(loc, name, value), loc counted from 0
InsertColumn(frame, loc, name, value) ==
    [columns |-> SubSeq(frame.columns, 1, loc) \o <<name>>
                    \o SubSeq(frame.columns, loc + 1, Len(frame.columns)),
     series  |-> SubSeq(frame.series, 1, loc) \o <<[i \in 1..frame.index |-> value]>>
                    \o SubSeq(frame.series, loc + 1, Len(frame.series)),
     index   |-> frame.index]

\* insert raises when the column exists already: the except branch returns None
add_month_quarter_columns(frame, month, quarter) ==
    IF HasColumn(frame, "Quarter") \/ HasColumn(frame, "Month") THEN NoTable
    ELSE InsertColumn(InsertColumn(frame, 0, "Quarter", PeriodCell(quarter)),
                      1, "Month", PeriodCell(month))

\* the extractor's result taken for a period without the test
MarkerAcceptedAlways(m) == TRUE

\* if month and quarter and year:
MarkerAccepted(m) == Truthy(m.month) /\ Truthy(m.quarter) /\ Truthy(m.year)

\* header.strip()
Strip(header) == IF header = " " THEN "" ELSE header

\* [header for header in headers if header.strip()]
NonBlank(headers) == SelectSeq(headers, LAMBDA h : Strip(h) /= "")

(***************************************************************************)
(* Bounds and the inputs drawn from them                                   *)
(***************************************************************************)
MaxHeaderLen == 3

MaxInitRows == 2

MaxDataRows == 2

MaxTableCols == 2

HeaderNames == {"A", "B", ""}

TableNames == {"A", "B", "C"}

SeqsUpTo(S, n) == UNION {[1..k -> S] : k \in 0..n}

IsInjective(s) == \A i, j \in 1..Len(s) : s[i] = s[j] => i = j

\* header rows a worksheet can hold: blanks and repeated names included
Headers == {h \in SeqsUpTo(HeaderNames, MaxHeaderLen) : TrimRight(h) = h}

OldCell(i) == IF i % 2 = 1 THEN "p" ELSE "q"

\* worksheets before the first call: empty, header only, header and data rows
InitSheets ==
    {<<>>} \cup {<<h>> \o [i \in 1..n |-> [c \in 1..Len(h) |-> OldCell(i)]] :
                    h \in Headers \ {<<>>}, n \in 0..MaxInitRows}

RowTag == <<"1", "2", "3", "4">>

\* tables an upload can parse to: unique column names, cells named after
\* their column and row, with missing values in the places fill says
MakeTable(cols, n, fill) ==
    [columns |-> cols,
     series  |-> [j \in 1..Len(cols) |->
                    [i \in 1..n |->
                        IF \/ fill = "gap" /\ j = 1
                           \/ fill = "tail" /\ i = n
                        THEN NaN
                        ELSE cols[j] \o RowTag[i]]],
     index   |-> n]

TableColumns == {c \in SeqsUpTo(TableNames, MaxTableCols) : c /= <<>> /\ IsInjective(c)}

Tables ==
    {MakeTable(cols, n, fill) :
        cols \in TableColumns, n \in 0..MaxDataRows, fill \in {"full", "gap", "tail"}}

(***************************************************************************)
(* Remote calls: each is issued once where the code calls it, and either   *)
(* returns or raises; a call that raised has not changed the worksheet     *)
(***************************************************************************)
\* the remote calls of the core operations
OperationCalls == {"clear", "row_values", "get_all_values", "write"}

NoCalls == [call \in OperationCalls |-> 0]

\* the operation issues the remote call
Issue(call) == calls' = [calls EXCEPT ![call] = @ + 1]

\* the remote call raised an exception
Raise(call) == failed' = failed \cup {call}

(***************************************************************************)
(* append_to_sheet, one step per remote call                               *)
(***************************************************************************)
\* entry of append_to_sheet(worksheet, new_data)
EnterAppend(table) ==
    /\ pc' = "row_values"
    /\ df_with_metadata' = table
    /\ before' = sheet
    /\ existing_headers' = <<>>
    /\ existing_rows' = 0
    /\ start_row' = 0
    /\ written' = EmptyFrame
    /\ ret' = FALSE
    /\ calls' = NoCalls
    /\ failed' = failed \ OperationCalls
    /\ external' = 0

\* a handler that issues the failed call again
RetryCall ==
    /\ pc' = pc
    /\ ret' = FALSE

\* except Exception: return False
ReturnFalse ==
    /\ pc' = "returned"
    /\ ret' = FALSE

\* existing_headers = worksheet.row_values(1)
AppendRowValues ==
    /\ pc = "row_values"
    /\ Issue("row_values")
    /\ \/ /\ existing_headers' = row_values(sheet, 1)
          /\ pc' = IF row_values(sheet, 1) = <<>> THEN "write_all" ELSE "get_all_values"
          /\ UNCHANGED <<ret, failed>>
       \/ /\ ReturnFalse
          /\ Raise("row_values")
          /\ UNCHANGED existing_headers
    /\ UNCHANGED <<tab, filename, marker, df, df_with_metadata, sheet, before, existing_rows, start_row,
                   written, existing_columns, existing_count, new_count, added_rows,
                   filtered, mutations, history, external>>

\* empty worksheet: set_with_dataframe(worksheet, new_data.fillna(""))
AppendWriteAll ==
    /\ pc = "write_all"
    /\ mutations' = mutations + 1
    /\ Issue("write")
    /\ \/ /\ sheet' = InitialWrite(sheet, df_with_metadata)
          /\ written' = fillna(df_with_metadata, "")
          /\ start_row' = 1
          /\ pc' = "returned"
          /\ ret' = TRUE
          /\ UNCHANGED failed
       \/ /\ ReturnFalse
          /\ Raise("write")
          /\ UNCHANGED <<sheet, written, start_row>>
    /\ UNCHANGED <<tab, filename, marker, df, df_with_metadata, before, existing_headers, existing_rows,
                   existing_columns, existing_count, new_count, added_rows, filtered,
                   history, external>>

\* existing_rows = len(worksheet.get_all_values()) - 1
AppendGetAllValues ==
    /\ pc = "get_all_values"
    /\ Issue("get_all_values")
    /\ \/ /\ existing_rows' = Len(get_all_values(sheet)) - 1
          /\ pc' = "write"
          /\ UNCHANGED <<ret, failed>>
       \/ /\ ReturnFalse
          /\ Raise("get_all_values")
          /\ UNCHANGED existing_rows
    /\ UNCHANGED <<tab, filename, marker, df, df_with_metadata, sheet, before, existing_headers, start_row,
                   written, existing_columns, existing_count, new_count, added_rows,
                   filtered, mutations, history, external>>

\* set_with_dataframe(worksheet, reordered_data, include_column_header=False,
\*                    row=existing_rows + 1)
AppendWrite ==
    /\ pc = "write"
    /\ mutations' = mutations + 1
    /\ Issue("write")
    /\ \/ /\ sheet' = AppendedWrite(sheet, existing_headers, existing_rows, df_with_metadata)
          /\ written' = reordered_data(existing_headers, df_with_metadata)
          /\ start_row' = AppendRow(existing_rows)
          /\ pc' = "returned"
          /\ ret' = TRUE
          /\ UNCHANGED failed
       \/ /\ ReturnFalse
          /\ Raise("write")
          /\ UNCHANGED <<sheet, written, start_row>>
    /\ UNCHANGED <<tab, filename, marker, df, df_with_metadata, before, existing_headers, existing_rows,
                   existing_columns, existing_count, new_count, added_rows, filtered,
                   history, external>>

append_to_sheet == AppendRowValues \/ AppendWriteAll \/ AppendGetAllValues \/ AppendWrite

(***************************************************************************)
(* update_sheet_data, one step per remote call                             *)
(***************************************************************************)
\* entry of update_sheet_data(worksheet, data)
EnterUpdate(data) ==
    /\ pc' = "clear"
    /\ df' = data
    /\ before' = sheet
    /\ start_row' = 0
    /\ written' = EmptyFrame
    /\ ret' = FALSE
    /\ calls' = NoCalls
    /\ failed' = failed \ OperationCalls
    /\ external' = 0

\* except Exception: return False
UpdateReturnFalse ==
    /\ pc' = "updated"
    /\ ret' = FALSE

\* worksheet.clear()
UpdateClear ==
    /\ pc = "clear"
    /\ mutations' = mutations + 1
    /\ Issue("clear")
    /\ \/ /\ sheet' = clear(sheet)
          /\ pc' = "set_with_dataframe"
          /\ UNCHANGED <<ret, failed>>
       \/ /\ UpdateReturnFalse
          /\ Raise("clear")
          /\ UNCHANGED sheet
    /\ UNCHANGED <<tab, filename, marker, df, df_with_metadata, before, existing_headers,
                   existing_rows, start_row, written, existing_columns, existing_count,
                   new_count, added_rows, filtered, history, external>>

\* set_with_dataframe(worksheet, data, include_index=False); return True
UpdateWrite ==
    /\ pc = "set_with_dataframe"
    /\ mutations' = mutations + 1
    /\ Issue("write")
    /\ \/ /\ sheet' = OverwriteWrite(sheet, df)
          /\ written' = df
          /\ start_row' = 1
          /\ pc' = "updated"
          /\ ret' = TRUE
          /\ UNCHANGED failed
       \/ /\ UpdateReturnFalse
          /\ Raise("write")
          /\ UNCHANGED <<sheet, written, start_row>>
    /\ UNCHANGED <<tab, filename, marker, df, df_with_metadata, before, existing_headers,
                   existing_rows, existing_columns, existing_count, new_count, added_rows,
                   filtered, history, external>>

update_sheet_data == UpdateClear \/ UpdateWrite

(***************************************************************************)
(* SpecSync: the synchroniser called on any worksheet with any table       *)
(***************************************************************************)
InitSync ==
    /\ pc = "idle"
    /\ tab = "sync"
    /\ filename = <<>>
    /\ marker = NoMatch
    /\ df = EmptyFrame
    /\ df_with_metadata = EmptyFrame
    /\ sheet \in InitSheets
    /\ before = sheet
    /\ existing_headers = <<>>
    /\ existing_rows = 0
    /\ start_row = 0
    /\ written = EmptyFrame
    /\ ret = FALSE
    /\ existing_columns = <<>>
    /\ existing_count = 0
    /\ new_count = 0
    /\ added_rows = 0
    /\ filtered = NoMatchingColumns
    /\ mutations = 0
    /\ history = <<>>
    /\ calls = NoCalls
    /\ failed = {}
    /\ external = 0

CallAppend ==
    /\ tab = "sync"
    /\ pc = "idle"
    /\ \E table \in Tables : EnterAppend(table)
    /\ mutations' = 0
    /\ UNCHANGED <<tab, filename, marker, df, sheet, existing_columns, existing_count,
                   new_count, added_rows, filtered, history>>

CallUpdate ==
    /\ tab = "sync"
    /\ pc = "idle"
    /\ \E table \in Tables : EnterUpdate(table)
    /\ mutations' = 0
    /\ UNCHANGED <<tab, filename, marker, df_with_metadata, sheet, existing_headers,
                   existing_rows, existing_columns, existing_count, new_count,
                   added_rows, filtered, history>>

NextSync == CallAppend \/ append_to_sheet \/ CallUpdate \/ update_sheet_data

SpecSync == InitSync /\ [][NextSync]_vars

(***************************************************************************)
(* SpecRace: append_to_sheet while another writer adds rows to the same    *)
(* worksheet; the code holds no lock between its reads and its write       *)
(***************************************************************************)
MaxExternalRows == 2

\* a row added by the other writer
ExternalRow == <<"x">>

\* the other writer adds a row after the last one, between the header read
\* and the write of the running append
ExternalWrite ==
    /\ tab = "sync"
    /\ pc \in {"get_all_values", "write"}
    /\ Len(sheet) < Len(before) + MaxExternalRows
    /\ sheet' = Append(sheet, ExternalRow)
    /\ external' = IF pc = "write" THEN external + 1 ELSE external
    /\ UNCHANGED <<pc, tab, filename, marker, df, df_with_metadata, before, existing_headers,
                   existing_rows, start_row, written, ret, existing_columns,
                   existing_count, new_count, added_rows, filtered, mutations, history,
                   calls, failed>>

NextRace == CallAppend \/ append_to_sheet \/ ExternalWrite

SpecRace == InitSync /\ [][NextRace]_vars

(***************************************************************************)
(* SpecReconcile: the reconciler applied to any table and any header list  *)
(***************************************************************************)
MaxUploadCols == 3

DestNames == {"ASIN", "asin", "Sales", "Date"}

UploadNames == {"date", "asin", "ASIN", "extra"}

ReconcileHeaders == SeqsUpTo(DestNames, MaxHeaderLen)

ReconcileTables ==
    {MakeTable(cols, n, "full") :
        cols \in {c \in SeqsUpTo(UploadNames, MaxUploadCols) : c /= <<>> /\ IsInjective(c)},
        n \in 0..1}

InitReconcile ==
    /\ pc = "upload"
    /\ tab = "reconcile"
    /\ filename = <<>>
    /\ marker = NoMatch
    /\ df \in ReconcileTables
    /\ df_with_metadata = EmptyFrame
    /\ sheet = <<>>
    /\ before = <<>>
    /\ existing_headers = <<>>
    /\ existing_rows = 0
    /\ start_row = 0
    /\ written = EmptyFrame
    /\ ret = FALSE
    /\ existing_columns \in ReconcileHeaders
    /\ existing_count = 0
    /\ new_count = 0
    /\ added_rows = 0
    /\ filtered = NoMatchingColumns
    /\ mutations = 0
    /\ history = <<>>
    /\ calls = NoCalls
    /\ failed = {}
    /\ external = 0

Reconcile ==
    /\ tab = "reconcile"
    /\ pc = "upload"
    /\ filtered' = filter_and_reorder_data(df, existing_columns)
    /\ pc' = "reconciled"
    /\ UNCHANGED <<tab, filename, marker, df, df_with_metadata, sheet, before, existing_headers,
                   existing_rows, start_row, written, ret, existing_columns,
                   existing_count, new_count, added_rows, mutations, history,
                   calls, failed, external>>

NextReconcile == Reconcile

SpecReconcile == InitReconcile /\ [][NextReconcile]_vars

(***************************************************************************)
(* Spec: the SellerBoard (tab 4) and Brand Analytics (tab 5) flows of      *)
(* main() in an authenticated session.  One run of the script is: the file *)
(* checks, the reads of the destination, and - when the append button was  *)
(* pressed - append_to_sheet and the count that follows it.                *)
(***************************************************************************)
MaxAppends == 2

Xlsx == <<".", "x", "l", "s", "x">>

Csv == <<".", "c", "s", "v">>

Year2025 == <<"2", "0", "2", "5">>

Year0000 == <<"0", "0", "0", "0">>

\* month fields of the uploaded names: in range, zero, and past twelve
FlowMonths == {<<"0", "0">>, <<"0", "7">>, <<"1", "2">>, <<"1", "3">>}

\* D_01_MM_YYYY-31_MM_YYYY + extension
NameSB(mm, yyyy, ext) ==
    <<"D", "_", "0", "1", "_">> \o mm \o <<"_">> \o yyyy \o <<"-", "3", "1", "_">>
        \o mm \o <<"_">> \o yyyy \o ext

\* M_YYYY_MM_31 + extension
NameBA(yyyy, mm, ext) == <<"M", "_">> \o yyyy \o <<"_">> \o mm \o <<"_", "3", "1">> \o ext

\* names offered to the SellerBoard uploader: months in and out of range, a
\* zero year, a wrong extension, no date at all
SellerBoardNames ==
    {NameSB(mm, Year2025, Xlsx) : mm \in FlowMonths}
        \cup {NameSB(<<"0", "7">>, Year0000, Xlsx), NameSB(<<"0", "7">>, Year2025, Csv),
              <<"r">> \o Xlsx}

\* names offered to the Brand Analytics uploader
BrandAnalyticsNames ==
    {NameBA(Year2025, mm, Csv) : mm \in FlowMonths}
        \cup {NameBA(Year0000, <<"0", "7">>, Csv), NameBA(Year2025, <<"0", "7">>, Xlsx),
              <<"r">> \o Csv}

MaxFlowRows == 1

\* what process_excel_file can return: a table, or None
SellerBoardTables ==
    {MakeTable(cols, n, "full") :
        cols \in {<<"ASIN">>, <<"Quarter", "ASIN">>}, n \in 0..MaxFlowRows} \cup {NoTable}

\* what process_csv_file can return: a table, or None
BrandAnalyticsTables ==
    {MakeTable(cols, n, "full") :
        cols \in {<<"date", "asin", "extra">>, <<"extra">>, <<"Month", "asin">>},
        n \in 0..MaxFlowRows} \cup {NoTable}

FlowHeaders == {<<"Quarter", "Month", "ASIN">>, <<"ASIN", "Sales", "Date">>}

FlowSheets ==
    {<<>>} \cup {<<h>> \o [i \in 1..n |-> [c \in 1..Len(h) |-> OldCell(i)]] :
                    h \in FlowHeaders, n \in 0..1}

Init ==
    /\ pc = "idle"
    /\ tab \in {"SB", "BA"}
    /\ filename = <<>>
    /\ marker = NoMatch
    /\ df = NoTable
    /\ df_with_metadata = NoTable
    /\ sheet \in FlowSheets
    /\ before = sheet
    /\ existing_headers = <<>>
    /\ existing_rows = 0
    /\ start_row = 0
    /\ written = EmptyFrame
    /\ ret = FALSE
    /\ existing_columns = <<>>
    /\ existing_count = 0
    /\ new_count = 0
    /\ added_rows = 0
    /\ filtered = NoMatchingColumns
    /\ mutations = 0
    /\ history = <<>>
    /\ calls = NoCalls
    /\ failed = {}
    /\ external = 0

\* the script is between two runs
Resting ==
    pc \in {"idle", "bad_format", "no_period", "parse_failed", "no_metadata",
            "no_columns", "no_match", "ready", "counted", "failed"}

\* the locals of main() at the start of a run of the script
FreshRun ==
    /\ before' = sheet
    /\ mutations' = 0
    /\ filtered' = NoMatchingColumns
    /\ existing_headers' = <<>>
    /\ existing_rows' = 0
    /\ start_row' = 0
    /\ written' = EmptyFrame
    /\ ret' = FALSE
    /\ existing_columns' = <<>>
    /\ existing_count' = 0
    /\ new_count' = 0
    /\ added_rows' = 0
    /\ calls' = NoCalls
    /\ failed' = {}
    /\ external' = 0

\* the run of the script up to the reads of the destination, on the file
\* name and the table the parser returns for it
FileChecks(name, m, table, format) ==
    /\ filename' = name
    /\ IF ~validate_file_format(name, format)
       THEN /\ pc' = "bad_format"
            /\ marker' = NoMatch
            /\ df' = NoTable
            /\ df_with_metadata' = NoTable
       ELSE /\ marker' = m
            /\ IF ~MarkerAccepted(m)
               THEN /\ pc' = "no_period"
                    /\ df' = NoTable
                    /\ df_with_metadata' = NoTable
               ELSE /\ df' = table
                    /\ IF table = NoTable
                       THEN /\ pc' = "parse_failed"
                            /\ df_with_metadata' = NoTable
                       ELSE IF format = "xlsx"
                       THEN \E augmented \in {add_month_quarter_columns(table, m.month, m.quarter)} :
                               /\ df_with_metadata' = augmented
                               /\ pc' = IF augmented = NoTable THEN "no_metadata" ELSE "uploaded"
                       ELSE /\ df_with_metadata' = NoTable
                            /\ pc' = "uploaded"

\* tab 4: a file is chosen in the SellerBoard uploader
UploadSellerBoard ==
    /\ tab = "SB"
    /\ Resting
    /\ Len(history) < MaxAppends
    /\ \E name \in SellerBoardNames :
          \E m \in {extract_date_from_filename(name)} :
             \E table \in SellerBoardTables : FileChecks(name, m, table, "xlsx")
    /\ FreshRun
    /\ UNCHANGED <<tab, sheet, history>>

\* tab 5: a file is chosen in the Brand Analytics uploader
UploadBrandAnalytics ==
    /\ tab = "BA"
    /\ Resting
    /\ Len(history) < MaxAppends
    /\ \E name \in BrandAnalyticsNames :
          \E m \in {extract_date_from_brand_analytics_filename(name)} :
             \E table \in BrandAnalyticsTables : FileChecks(name, m, table, "csv")
    /\ FreshRun
    /\ UNCHANGED <<tab, sheet, history>>

\* the script runs again on the file already chosen
Rerun ==
    /\ tab \in {"SB", "BA"}
    /\ pc \in {"ready", "counted", "failed", "no_columns", "no_match"}
    /\ Len(history) < MaxAppends
    /\ pc' = "uploaded"
    /\ FreshRun
    /\ df_with_metadata' = IF tab = "SB" THEN df_with_metadata ELSE NoTable
    /\ UNCHANGED <<tab, filename, marker, df, sheet, history>>

\* existing_columns = get_existing_columns(worksheet): [] when the read fails
ReadColumns ==
    /\ tab = "BA"
    /\ pc = "uploaded"
    /\ \/ existing_columns' = NonBlank(row_values(sheet, 1)) /\ UNCHANGED failed
       \/ existing_columns' = <<>> /\ Raise("get_existing_columns")
    /\ pc' = "columns_read"
    /\ UNCHANGED <<tab, filename, marker, df, df_with_metadata, sheet, before,
                   existing_headers, existing_rows, start_row, written, ret,
                   existing_count, new_count, added_rows, filtered, mutations, history,
                   calls, external>>

\* existing_count = get_existing_data_count(worksheet): 0 when the read fails;
\* tab 5 then reconciles the columns and adds the period columns
ReadCount ==
    /\ \/ tab = "SB" /\ pc = "uploaded"
       \/ tab = "BA" /\ pc = "columns_read"
    /\ \/ existing_count' = DataCount(sheet) /\ UNCHANGED failed
       \/ existing_count' = 0 /\ Raise("existing_count")
    /\ IF tab = "SB"
       THEN /\ pc' = "ready"
            /\ UNCHANGED <<filtered, df_with_metadata>>
       ELSE IF existing_columns = <<>>
       THEN /\ pc' = "no_columns"
            /\ UNCHANGED <<filtered, df_with_metadata>>
       ELSE LET result == filter_and_reorder_data(df, existing_columns)
                augmented == add_month_quarter_columns(result.df, marker.month, marker.quarter)
            IN  /\ filtered' = result
                /\ IF result.df = NoTable
                   THEN /\ pc' = "no_match"
                        /\ UNCHANGED df_with_metadata
                   ELSE /\ df_with_metadata' = augmented
                        /\ pc' = IF augmented = NoTable THEN "no_metadata" ELSE "ready"
    /\ UNCHANGED <<tab, filename, marker, df, sheet, before, existing_headers,
                   existing_rows, start_row, written, ret, existing_columns, new_count,
                   added_rows, mutations, history, calls, external>>

\* the append button: append_to_sheet(worksheet, df_with_metadata)
PressAppend ==
    /\ tab \in {"SB", "BA"}
    /\ pc = "ready"
    /\ EnterAppend(df_with_metadata)
    /\ UNCHANGED <<tab, filename, marker, df, sheet, existing_columns, existing_count,
                   new_count, added_rows, filtered, mutations, history>>

\* after append_to_sheet: new_count = get_existing_data_count(worksheet) and
\* added_rows = new_count - existing_count when it returned True
AfterAppend ==
    /\ tab \in {"SB", "BA"}
    /\ pc = "returned"
    /\ IF ret
       THEN /\ \/ new_count' = DataCount(sheet) /\ UNCHANGED failed
               \/ new_count' = 0 /\ Raise("new_count")
            /\ added_rows' = new_count' - existing_count
            /\ history' = Append(history, [empty |-> before = <<>>,
                                           rows |-> df_with_metadata.index])
            /\ pc' = "counted"
       ELSE /\ pc' = "failed"
            /\ UNCHANGED <<new_count, added_rows, history, failed>>
    /\ UNCHANGED <<tab, filename, marker, df, df_with_metadata, sheet, before,
                   existing_headers, existing_rows, start_row, written, ret,
                   existing_columns, existing_count, filtered, mutations, calls, external>>

Next == UploadSellerBoard \/ UploadBrandAnalytics \/ Rerun \/ ReadColumns \/ ReadCount \/ PressAppend \/ append_to_sheet \/ AfterAppend

Spec == Init /\ [][Next]_vars

(***************************************************************************)
(* SpecExtract: the two extractors applied to any filename                 *)
(***************************************************************************)
\* names around Grammar B: a prefix, a year field, a separator, a month
\* field, a day field and an ending, well formed or not
GrammarBNames ==
    {prefix \o yyyy \o <<sep>> \o mm \o <<"_", "3", "1">> \o ending :
        prefix \in {<<>>, <<"M", "_">>, <<"9">>},
        yyyy \in {Year2025, Year0000, <<"2", "0", "2">>, <<"2", "0", "2", "x">>},
        sep \in {"_", "-"},
        mm \in FlowMonths \cup {<<"7">>},
        ending \in {Csv, <<".", "c", "s">>, <<".", "c", "s", "v", "x">>, Xlsx, <<>>,
                    Csv \o <<"\n">>, <<"x", "c", "s", "v">>, <<".", "C", "S", "V">>}}

\* DD_MM_YYYY with day 01
DateA(mm, yyyy) == <<"0", "1", "_">> \o mm \o <<"_">> \o yyyy

\* names around Grammar A: a prefix, a first date, a separator, a second
\* date of another month and year, and an ending that may hold a second range
GrammarANames ==
    {prefix \o DateA(mm, yyyy) \o <<sep>> \o DateA(<<"0", "8">>, <<"2", "0", "2", "6">>) \o ending :
        prefix \in {<<>>, <<"D", "_">>, <<"9">>},
        mm \in FlowMonths \cup {<<"7">>},
        yyyy \in {Year2025, Year0000, <<"2", "0", "2">>},
        sep \in {"-", "_"},
        ending \in {Xlsx, <<"_">> \o DateA(<<"1", "2">>, Year2025) \o <<"-">>
                               \o DateA(<<"1", "2">>, Year2025) \o Xlsx}}

ExtractNames == GrammarANames \cup GrammarBNames \cup SellerBoardNames \cup BrandAnalyticsNames

InitExtract ==
    /\ pc = "named"
    /\ tab \in {"grammar_a", "grammar_b"}
    /\ filename \in ExtractNames
    /\ marker = NoMatch
    /\ df = NoTable
    /\ df_with_metadata = NoTable
    /\ sheet = <<>>
    /\ before = <<>>
    /\ existing_headers = <<>>
    /\ existing_rows = 0
    /\ start_row = 0
    /\ written = EmptyFrame
    /\ ret = FALSE
    /\ existing_columns = <<>>
    /\ existing_count = 0
    /\ new_count = 0
    /\ added_rows = 0
    /\ filtered = NoMatchingColumns
    /\ mutations = 0
    /\ history = <<>>
    /\ calls = NoCalls
    /\ failed = {}
    /\ external = 0

ExtractA ==
    /\ tab = "grammar_a"
    /\ pc = "named"
    /\ marker' = extract_date_from_filename(filename)
    /\ pc' = "extracted"
    /\ UNCHANGED <<tab, filename, df, df_with_metadata, sheet, before, existing_headers,
                   existing_rows, start_row, written, ret, existing_columns,
                   existing_count, new_count, added_rows, filtered, mutations, history,
                   calls, failed, external>>

ExtractB ==
    /\ tab = "grammar_b"
    /\ pc = "named"
    /\ marker' = extract_date_from_brand_analytics_filename(filename)
    /\ pc' = "extracted"
    /\ UNCHANGED <<tab, filename, df, df_with_metadata, sheet, before, existing_headers,
                   existing_rows, start_row, written, ret, existing_columns,
                   existing_count, new_count, added_rows, filtered, mutations, history,
                   calls, failed, external>>

NextExtract == ExtractA \/ ExtractB

SpecExtract == InitExtract /\ [][NextExtract]_vars

(***************************************************************************)
(* Properties of append_to_sheet (SpecSync)                                *)
(***************************************************************************)
\* append_to_sheet has returned True
Appended == pc = "returned" /\ ret = TRUE

\* the worksheet had a non-empty header row when append_to_sheet was entered
HadHeader == row_values(before, 1) /= <<>>

\* the incoming columns that are not destination headers, in incoming order
NovelColumns(headers, table) ==
    SelectSeq(table.columns, LAMBDA c : c \notin Range(headers))

\* C1: a successful append leaves every pre-existing row of the range as it
\* was: no row that existed before the call has changed or disappeared.
AppendPreservesExistingRows ==
    Appended =>
        /\ Len(sheet) >= Len(before)
        /\ \A r \in 1..Len(before) : sheet[r] = before[r]

\* C3: with a non-empty header row (also with no data row beneath it) the
\* first appended row is written right after the last existing row, never
\* into row 1, and the header row is the same before and after.
AppendNeverWritesHeaderRow ==
    (Appended /\ HadHeader) =>
        /\ start_row = Len(before) + 1
        /\ start_row > 1
        /\ row_values(sheet, 1) = row_values(before, 1)

\* C4: against a non-empty header the written columns are every destination
\* header in destination order (empty strings when the incoming table lacks
\* it), followed by every incoming column that is no destination header, in
\* incoming order.
AppendWritesHeaderThenNovelColumns ==
    (Appended /\ HadHeader) =>
        /\ written.columns = existing_headers \o NovelColumns(existing_headers, df_with_metadata)
        /\ \A j \in 1..Len(written.columns) : \A i \in 1..written.index :
              written.series[j][i] =
                  IF HasColumn(df_with_metadata, written.columns[j])
                  THEN CellRepr(GetColumn(df_with_metadata, written.columns[j])[i])
                  ELSE ""

\* C5: an append to a completely empty worksheet writes the incoming
\* table's header in row 1 and its data rows beneath, so the destination
\* header becomes the incoming column names in incoming order.
AppendToEmptyWritesWholeTable ==
    (Appended /\ before = <<>>) =>
        /\ start_row = 1
        /\ row_values(sheet, 1) = df_with_metadata.columns
        /\ \A i \in 1..df_with_metadata.index : \A j \in 1..Len(df_with_metadata.columns) :
              CellAt(sheet, i + 1, j) = CellRepr(df_with_metadata.series[j][i])

\* C5 witness: a table with two columns and a data row was appended to an
\* empty worksheet
AppendToEmptyHappened ==
    /\ Appended /\ before = <<>>
    /\ Len(df_with_metadata.columns) >= 2 /\ df_with_metadata.index >= 1
    /\ Len(sheet) >= 2

(***************************************************************************)
(* Properties of filter_and_reorder_data (SpecReconcile)                   *)
(***************************************************************************)
\* the reconciler has returned a table
Reconciled == pc = "reconciled" /\ filtered.df /= NoTable

\* the destination header equals some uploaded column name, ignoring case
HasMatch(header, frame) == \E c \in Range(frame.columns) : Lower(c) = Lower(header)

\* the destination headers that have a match, in destination order
MatchedHeaders(columns, frame) == SelectSeq(columns, LAMBDA h : HasMatch(h, frame))

\* the place of the first destination header equal to name, ignoring case
FirstPlace(columns, name) ==
    CHOOSE k \in 1..Len(columns) :
        /\ Lower(columns[k]) = Lower(name)
        /\ \A m \in 1..(k - 1) : Lower(columns[m]) /= Lower(name)

\* C6: the reconciled table's columns are exactly the destination headers
\* that match an uploaded column ignoring case, in destination order, under
\* the destination's casing and with the matched uploaded column's values.
ReconcileKeepsExactlyMatchedHeaders ==
    Reconciled =>
        /\ filtered.df.columns = MatchedHeaders(existing_columns, df)
        /\ \A j \in 1..Len(filtered.df.columns) :
              \E c \in Range(df.columns) :
                  /\ Lower(c) = Lower(filtered.df.columns[j])
                  /\ filtered.df.series[j] = GetColumn(df, c)

\* the destination headers differ from one another, also ignoring case
DistinctHeaders ==
    \A i, j \in 1..Len(existing_columns) :
        Lower(existing_columns[i]) = Lower(existing_columns[j]) => i = j

RECURSIVE SumRows(_)
SumRows(h) == IF h = <<>> THEN 0 ELSE h[Len(h)].rows + SumRows(SubSeq(h, 1, Len(h) - 1))

\* the appends of the history started on an empty range
FromEmpty == history /= <<>> /\ history[1].empty

\* C2: from an empty range, after successful appends of N and then M data
\* rows the data row count is N and then N + M, and the added_rows reported
\* for an append is the number of data rows of its table.
AppendCountsAddUp ==
    (pc = "counted" /\ FromEmpty) =>
        /\ DataCount(sheet) = SumRows(history)
        /\ (existing_count = DataCount(before) /\ new_count = DataCount(sheet)) =>
              added_rows = history[Len(history)].rows

\* the period of the current upload is missing: the extractor returned no
\* match, or a month, quarter or year that the flow treats as absent
PeriodMissing ==
    \/ marker.month \in {None, 0}
    \/ marker.quarter \in {None, 0}
    \/ marker.year \in {None, 0}

\* C8: when the extractor gives no period, or the reconciliation matches no
\* column, the run stops with no clear or write issued on the destination;
\* a clear or write is only ever issued with a period and, on the Brand
\* Analytics tab, a reconciled table.
NoMutationWithoutPeriodOrMatch ==
    /\ pc \in {"no_period", "no_match"} => (mutations = 0 /\ sheet = before)
    /\ (filename /= <<>> /\ PeriodMissing) => (mutations = 0 /\ sheet = before)
    /\ mutations > 0 =>
          /\ ~PeriodMissing
          /\ tab = "BA" => filtered.df /= NoTable

\* C8 witness: a run stopped on a name without a period
StoppedWithoutPeriod ==
    pc = "no_period" /\ marker = NoMatch /\ filename /= <<>> /\ sheet /= <<>>

\* C8 witness of the other case: a run stopped on zero matched columns
\* after an append of an earlier upload had written to the range
StoppedWithoutMatch ==
    pc = "no_match" /\ filtered = NoMatchingColumns /\ history /= <<>>

\* C9: a period accepted by an upload flow and synchronised has its month in
\* 1..12 and its quarter in 1..4, the quarter following from the month.
SynchronisedPeriodInRange ==
    (tab \in {"SB", "BA"} /\ mutations > 0) =>
        /\ marker.month \in 1..12
        /\ marker.quarter \in 1..4
        /\ marker.quarter = QuarterOf(marker.month)

(***************************************************************************)
(* Properties of the extractors (SpecExtract)                              *)
(***************************************************************************)
\* the name ends with four digits, _, two digits, _, two digits, .csv
EndsWithDateCsv(name) ==
    /\ Len(name) >= 14
    /\ DigitsAt(name, Len(name) - 13, 4) /\ name[Len(name) - 9] = "_"
    /\ DigitsAt(name, Len(name) - 8, 2) /\ name[Len(name) - 6] = "_"
    /\ DigitsAt(name, Len(name) - 5, 2)
    /\ EndsWith(name, Csv)

\* C10: the Grammar B extractor returns a period exactly when the name ends
\* with YYYY_MM_DD.csv, the year and month being those fields and the
\* quarter following from the month; for every other name it returns no match.
GrammarBMatchesExactlyDateCsv ==
    (pc = "extracted" /\ tab = "grammar_b") =>
        IF EndsWithDateCsv(filename)
        THEN LET month == IntOf(SubSeq(filename, Len(filename) - 8, Len(filename) - 7))
             IN  marker = [month |-> month, quarter |-> QuarterOf(month),
                           year |-> IntOf(SubSeq(filename, Len(filename) - 13, Len(filename) - 10))]
        ELSE marker = NoMatch

\* the shape DD_MM_YYYY-DD_MM_YYYY: d a decimal digit
RangeShape ==
    <<"d", "d", "_", "d", "d", "_", "d", "d", "d", "d", "-",
      "d", "d", "_", "d", "d", "_", "d", "d", "d", "d">>

\* the characters of name from position i on have the shape of a range
HasRangeAt(name, i) ==
    /\ i + Len(RangeShape) - 1 <= Len(name)
    /\ \A k \in 1..Len(RangeShape) :
          IF RangeShape[k] = "d"
          THEN name[i + k - 1] \in {"0", "1", "2", "3", "4", "5", "6", "7", "8", "9"}
          ELSE name[i + k - 1] = RangeShape[k]

\* the number written by the characters i..j of name
RECURSIVE NumberAt(_, _, _)
NumberAt(name, i, j) ==
    IF j < i THEN 0
    ELSE 10 * NumberAt(name, i, j - 1)
            + (CHOOSE v \in 0..9 : ToString(v) = name[j])

\* C11: for a name containing DD_MM_YYYY-DD_MM_YYYY the Grammar A extractor
\* returns the month and year of the first date of the first such range and
\* quarter = ((month - 1) div 3) + 1; for a name without one it returns all
\* three fields absent; month, quarter and year are never partly absent.
GrammarAReturnsFirstDate ==
    (tab = "grammar_a" /\ pc = "extracted") =>
        LET starts == {i \in 1..Len(filename) : HasRangeAt(filename, i)}
        IN  /\ starts = {} =>
                  marker.month = None /\ marker.quarter = None /\ marker.year = None
            /\ \A i \in starts :
                  (\A g \in starts : i <= g) =>
                      /\ marker.month = NumberAt(filename, i + 3, i + 4)
                      /\ marker.year = NumberAt(filename, i + 6, i + 9)
                      /\ marker.quarter = ((marker.month - 1) \div 3) + 1
            /\ (marker.month = None) = (marker.quarter = None)
            /\ (marker.month = None) = (marker.year = None)

\* C11 witness: a name with two ranges, whose first range runs from July
\* 2025 to August 2026, gave July, the third quarter, 2025
GrammarAFirstOfTwoRanges ==
    /\ tab = "grammar_a" /\ pc = "extracted"
    /\ Cardinality({i \in 1..Len(filename) : HasRangeAt(filename, i)}) = 2
    /\ marker = [month |-> 7, quarter |-> 3, year |-> 2025]

(***************************************************************************)
(* Properties of update_sheet_data (SpecSync)                              *)
(***************************************************************************)
\* update_sheet_data has returned True
Updated == pc = "updated" /\ ret = TRUE

\* C12: after a successful overwrite of table T, whatever the range held
\* before, the range holds exactly T's header in row 1 and T's rows beneath
\* it in order, a missing value being an empty cell, and no cell outside
\* the table holds anything; read back, column order and values are T's.
OverwriteLeavesExactlyTheTable ==
    Updated =>
        /\ row_values(sheet, 1) = df.columns
        /\ \A i \in 1..df.index : \A j \in 1..Len(df.columns) :
              CellAt(sheet, i + 1, j) = (IF df.series[j][i] = NaN THEN "" ELSE df.series[j][i])
        /\ Len(sheet) <= df.index + 1
        /\ \A r \in 1..Len(sheet) : Len(sheet[r]) <= Len(df.columns)

\* C12 witness: a table with a missing value replaced a range that was
\* longer and wider than the table
OverwroteLargerRange ==
    /\ Updated
    /\ Len(before) > df.index + 1
    /\ Len(before[1]) > Len(df.columns)
    /\ df.index >= 1
    /\ \E j \in 1..Len(df.columns) : df.series[j][1] = NaN

\* C13: when the write of an overwrite fails after the clear succeeded,
\* the operation reports failure and leaves the range empty: the earlier
\* content is gone, nothing of the new table is there, and neither the
\* clear nor the write is issued again.
FailedOverwriteLeavesRangeEmpty ==
    (pc = "updated" /\ "write" \in failed) =>
        /\ ret = FALSE
        /\ sheet = <<>>
        /\ calls["clear"] = 1
        /\ calls["write"] = 1

\* C13 witness: the write of a table with rows failed on a range that held
\* a header and data rows
OverwriteFailedAfterClear ==
    /\ pc = "updated" /\ "write" \in failed
    /\ Len(before) >= 2
    /\ df.index >= 1

(***************************************************************************)
(* Properties of the reads of main() (Spec)                                *)
(***************************************************************************)
\* C14: a read of the destination that failed is reported to main() with a
\* value no successful read gives - not the 0 rows or the empty header list
\* of an empty range - and added_rows is never computed from a failed count.
FailedReadsAreDistinguishable ==
    /\ "existing_count" \in failed => existing_count \notin Nat
    /\ "get_existing_columns" \in failed => existing_columns /= <<>>
    /\ pc = "counted" => failed \cap {"existing_count", "new_count"} = {}

(***************************************************************************)
(* Properties of failing remote calls (SpecSync)                           *)
(***************************************************************************)
\* C15: when the header read or the read of all rows of an append fails,
\* append_to_sheet returns False having issued no write, the worksheet
\* being as it was; and no remote call (clear, read, write) is issued more
\* than once within one append or overwrite.
FailedAppendReadWritesNothing ==
    /\ (pc = "returned" /\ failed \cap {"row_values", "get_all_values"} /= {}) =>
          /\ ret = FALSE
          /\ calls["write"] = 0
          /\ mutations = 0
          /\ sheet = before
    /\ \A call \in OperationCalls : calls[call] <= 1

\* C15 witness: the read of all rows failed in an append of a table with
\* rows to a worksheet with a header and data rows
AppendFailedOnReadOfRows ==
    /\ pc = "returned" /\ "get_all_values" \in failed
    /\ calls["row_values"] = 1
    /\ Len(before) >= 2
    /\ df_with_metadata.index >= 1

(***************************************************************************)
(* Properties of append_to_sheet beside another writer (SpecRace)          *)
(***************************************************************************)
\* C16: append holds no lock between its reads and its write: whatever
\* rows another writer added after the row count was read, the appended
\* rows are written from the offset computed from that count, over any row
\* that is there.
AppendWritesAtStaleOffset ==
    (Appended /\ existing_headers /= <<>>) =>
        /\ start_row = existing_rows + 1
        /\ \A i \in 1..written.index : \A j \in 1..Len(written.columns) :
              CellAt(sheet, existing_rows + i, j) = written.series[j][i]

\* C16 witness: rows were added by the other writer after the count was
\* read, and after an append of non-blank rows none of them is left in the
\* worksheet
ExternalRowsOverwritten ==
    /\ Appended /\ existing_headers /= <<>>
    /\ external >= 1
    /\ written.index >= 2
    /\ written.series[1][2] /= ""
    /\ row_values(sheet, existing_rows + 2) /= <<>>
    /\ \A r \in 1..Len(sheet) : sheet[r] /= ExternalRow

(***************************************************************************)
(* Alignment of the appended rows with the header (SpecSync)               *)
(***************************************************************************)
\* C17: for every destination header row, also one with several blank
\* names or a name that occurs more than once, the appended rows are
\* aligned with the header by position: there is a written column for each
\* header cell, and the column at position p holds the incoming values of
\* the header at position p, or empty strings when the table lacks it.
AppendAlignsWithHeaderPositions ==
    (Appended /\ HadHeader) =>
        /\ Len(written.columns) >= Len(existing_headers)
        /\ \A p \in 1..Len(existing_headers) :
              /\ written.columns[p] = existing_headers[p]
              /\ \A i \in 1..written.index :
                    written.series[p][i] =
                        IF HasColumn(df_with_metadata, existing_headers[p])
                        THEN CellRepr(GetColumn(df_with_metadata, existing_headers[p])[i])
                        ELSE ""

====
